---- MODULE Spec2Model ----
(***************************************************************************)
(* Model of main.py: the Streamlit dashboard script that loads per-school  *)
(* environment CSV files and one growth workbook from DATA_DIR, halts on   *)
(* an empty load, and computes the overview, environment and growth views. *)
(*                                                                         *)
(* Text is modelled as a sequence of Unicode code points, so that the      *)
(* composed (NFC) and decomposed (NFD) renderings of one Hangul name are   *)
(* different strings, as they are for Python.                              *)
(***************************************************************************)
EXTENDS Integers, Sequences, FiniteSets, TLC

\* ------------------------------------------------------------------------
\* Unicode: unicodedata.normalize("NFC", text) restricted to ASCII + Hangul
\* (the conjoining-jamo arithmetic of the Unicode standard, section 3.12).
\* ------------------------------------------------------------------------
SBase == 44032
LBase == 4352
VBase == 4449
TBase == 4519
LCount == 19
VCount == 21
TCount == 28
NCount == VCount * TCount
SCount == LCount * NCount

IsSyllable(c) == c >= SBase /\ c < SBase + SCount
IsLead(c) == c >= LBase /\ c < LBase + LCount
IsVowel(c) == c >= VBase /\ c < VBase + VCount
IsTrail(c) == c > TBase /\ c < TBase + TCount

\* canonical decomposition of one code point
DecomposeChar(c) ==
    IF IsSyllable(c)
    THEN LET si == c - SBase
             l == LBase + (si \div NCount)
             v == VBase + ((si % NCount) \div TCount)
             t == TBase + (si % TCount)
         IN IF t = TBase THEN <<l, v>> ELSE <<l, v, t>>
    ELSE <<c>>

RECURSIVE Decompose(_)
Decompose(s) ==
    IF s = <<>> THEN <<>> ELSE DecomposeChar(Head(s)) \o Decompose(Tail(s))

\* canonical composition: acc is the output so far, its last element the
\* starter that the next code point may combine with
RECURSIVE ComposeFrom(_, _)
ComposeFrom(acc, s) ==
    IF s = <<>> THEN acc
    ELSE LET c == Head(s)
             n == Len(acc)
             last == IF n = 0 THEN 0 ELSE acc[n]
         IN IF n > 0 /\ IsLead(last) /\ IsVowel(c)
            THEN ComposeFrom(
                   [acc EXCEPT ![n] = SBase + ((last - LBase) * VCount + (c - VBase)) * TCount],
                   Tail(s))
            ELSE IF n > 0 /\ IsSyllable(last) /\ (last - SBase) % TCount = 0 /\ IsTrail(c)
            THEN ComposeFrom([acc EXCEPT ![n] = last + (c - TBase)], Tail(s))
            ELSE ComposeFrom(Append(acc, c), Tail(s))

NFC(s) == ComposeFrom(<<>>, Decompose(s))
NFD(s) == Decompose(s)

normalize_text(text) == NFC(text)

\* ------------------------------------------------------------------------
\* str and pathlib.Path helpers used by the script
\* ------------------------------------------------------------------------
Dot == 46

\* str.lower() on the ASCII range (Hangul has no case)
LowerChar(c) == IF c >= 65 /\ c <= 90 THEN c + 32 ELSE c
Lower(s) == [i \in 1..Len(s) |-> LowerChar(s[i])]

\* str.rfind("."), 1-based, 0 when absent
RFindDot(s) ==
    LET idx == {i \in 1..Len(s) : s[i] = Dot}
    IN IF idx = {} THEN 0 ELSE CHOOSE i \in idx : \A j \in idx : j <= i

\* PurePath.suffix: the last dot-part, empty for a leading or a trailing dot
PathSuffix(name) ==
    LET i == RFindDot(name)
    IN IF i > 1 /\ i < Len(name) THEN SubSeq(name, i, Len(name)) ELSE <<>>

\* PurePath.stem
PathStem(name) ==
    LET i == RFindDot(name)
    IN IF i > 1 /\ i < Len(name) THEN SubSeq(name, 1, i - 1) ELSE name

StartsWith(s, p) == Len(p) <= Len(s) /\ SubSeq(s, 1, Len(p)) = p

\* str.replace(old, ""): every non-overlapping occurrence, left to right
RECURSIVE RemoveAll(_, _)
RemoveAll(s, old) ==
    IF s = <<>> \/ old = <<>> THEN s
    ELSE IF StartsWith(s, old)
         THEN RemoveAll(SubSeq(s, Len(old) + 1, Len(s)), old)
         ELSE <<Head(s)>> \o RemoveAll(Tail(s), old)

\* the `in` operator on str: key occurs in s as a substring
RECURSIVE Contains(_, _)
Contains(s, key) ==
    IF StartsWith(s, key) THEN TRUE
    ELSE IF s = <<>> THEN FALSE
    ELSE Contains(Tail(s), key)

\* ------------------------------------------------------------------------
\* Names (code points).  The literals of main.py are in composed form.
\* ------------------------------------------------------------------------
Songdo == <<49569, 46020, 44256>>       \* "송도고"
Haneul == <<54616, 45720, 44256>>       \* "하늘고"
Ara == <<50500, 46972, 44256>>          \* "아라고"
Dongsan == <<46041, 49328, 44256>>      \* "동산고"
Gita == <<44592, 53440>>                \* "기타", a school outside EC_INFO
EnvToken == <<95, 54872, 44221, 45936, 51060, 53552>>   \* "_환경데이터"
CsvExt == <<46, 99, 115, 118>>          \* ".csv"
CsvExtUpper == <<46, 67, 83, 86>>       \* ".CSV"
XlsxExt == <<46, 120, 108, 115, 120>>   \* ".xlsx"
All == <<51204, 52404>>                 \* "전체", the sidebar's first option

EC_INFO ==
    << [school |-> Songdo, ec |-> 1],
       [school |-> Haneul, ec |-> 2],
       [school |-> Ara, ec |-> 4],
       [school |-> Dongsan, ec |-> 8] >>

SCHOOLS == [i \in 1..Len(EC_INFO) |-> EC_INFO[i].school]

Range(q) == {q[i] : i \in 1..Len(q)}

InEcInfo(s) == \E i \in 1..Len(EC_INFO) : EC_INFO[i].school = s
EcOf(s) == (CHOOSE e \in Range(EC_INFO) : e.school = s).ec

\* ------------------------------------------------------------------------
\* dict: insertion-ordered sequence of [k, v] with distinct keys
\* ------------------------------------------------------------------------
Keys(d) == {d[i].k : i \in 1..Len(d)}
HasKey(d, key) == key \in Keys(d)
DictGet(d, key) == (CHOOSE e \in Range(d) : e.k = key).v
\* d[key] = val: an existing key keeps its position, a new key goes last
DictSet(d, key, val) ==
    IF HasKey(d, key)
    THEN [i \in 1..Len(d) |-> IF d[i].k = key THEN [k |-> key, v |-> val] ELSE d[i]]
    ELSE Append(d, [k |-> key, v |-> val])

\* ------------------------------------------------------------------------
\* pandas: a DataFrame is its column labels and its rows; a mean is a
\* fraction, or NaN over no values
\* ------------------------------------------------------------------------
EnvColumns == <<"time", "temperature", "humidity", "ph", "ec">>
\* "생중량(g)", "잎 수(장)", "지상부 길이(mm)"
GrowthColumns == <<"biomass_g", "leaf_count", "shoot_length_mm">>

DataFrame(header, rows) == [columns |-> header, rows |-> rows]

HasColumn(df, c) == c \in Range(df.columns)
ColIndex(df, c) == CHOOSE i \in 1..Len(df.columns) : df.columns[i] = c
\* df[c] for a column the frame has
Column(df, c) == [r \in 1..Len(df.rows) |-> df.rows[r][ColIndex(df, c)]]

RECURSIVE Sum(_)
Sum(q) == IF q = <<>> THEN 0 ELSE Head(q) + Sum(Tail(q))

NaN == [nan |-> TRUE, num |-> 0, den |-> 1]
\* Series.mean(): NaN for an empty series
Mean(q) == IF q = <<>> THEN NaN ELSE [nan |-> FALSE, num |-> Sum(q), den |-> Len(q)]
IsNaN(m) == m.nan
\* a > b on two means that are numbers
Greater(a, b) == a.num * b.den > b.num * a.den

\* ------------------------------------------------------------------------
\* DATA_DIR: the directory entries in iterdir() order.  An entry is a CSV
\* file (header, rows) or a workbook (sheets); an unreadable one makes
\* pd.read_csv / pd.ExcelFile raise.
\* ------------------------------------------------------------------------
Csv(name, header, rows) ==
    [name |-> name, readable |-> TRUE, header |-> header, rows |-> rows, sheets |-> <<>>]
Workbook(name, sheets) ==
    [name |-> name, readable |-> TRUE, header |-> <<>>, rows |-> <<>>, sheets |-> sheets]
Unreadable(f) == [f EXCEPT !.readable = FALSE]
Sheet(name, header, rows) == [name |-> name, header |-> header, rows |-> rows]

NoResult == [raised |-> FALSE, value |-> <<>>]
Raised == [raised |-> TRUE, value |-> <<>>]

\* pd.read_csv(f)
read_csv(f) == DataFrame(f.header, f.rows)

\* load_environment_data, body (lines 58-67): every *.csv entry, keyed by
\* the stem with the literal "_환경데이터" removed and then NFC-normalized
RECURSIVE EnvLoop(_, _)
EnvLoop(entries, env) ==
    IF entries = <<>> THEN [raised |-> FALSE, value |-> env]
    ELSE LET f == Head(entries)
         IN IF Lower(PathSuffix(f.name)) = CsvExt
            THEN IF ~f.readable THEN Raised
                 ELSE LET school == normalize_text(RemoveAll(PathStem(f.name), EnvToken))
                      IN EnvLoop(Tail(entries), DictSet(env, school, read_csv(f)))
            ELSE EnvLoop(Tail(entries), env)

load_environment_data(directory) == EnvLoop(directory, <<>>)

\* the first *.xlsx entry in iteration order (lines 72-76), 0 when none
FirstXlsx(directory) ==
    LET idx == {i \in 1..Len(directory) : Lower(PathSuffix(directory[i].name)) = XlsxExt}
    IN IF idx = {} THEN 0 ELSE CHOOSE i \in idx : \A j \in idx : i <= j

\* for sheet in excel.sheet_names: data[sheet] = excel.parse(sheet)
RECURSIVE SheetLoop(_, _)
SheetLoop(sheets, data) ==
    IF sheets = <<>> THEN data
    ELSE LET sh == Head(sheets)
         IN SheetLoop(Tail(sheets), DictSet(data, sh.name, DataFrame(sh.header, sh.rows)))

\* load_growth_data, body (lines 71-86)
load_growth_data(directory) ==
    LET i == FirstXlsx(directory)
    IN IF i = 0 THEN NoResult
       ELSE IF ~directory[i].readable THEN Raised
       ELSE [raised |-> FALSE, value |-> SheetLoop(directory[i].sheets, <<>>)]

\* ------------------------------------------------------------------------
\* find_file (lines 44-50); None is modelled as 0, a hit as the entry's
\* position in iteration order
\* ------------------------------------------------------------------------
RECURSIVE FindLoop(_, _, _, _)
FindLoop(directory, i, key, suffix) ==
    IF i > Len(directory) THEN 0
    ELSE IF Lower(PathSuffix(directory[i].name)) = suffix
            /\ Contains(normalize_text(directory[i].name), key)
         THEN i
         ELSE FindLoop(directory, i + 1, key, suffix)

\* find_file with the candidate's name compared as it is on disk
RECURSIVE FindLoopRawName(_, _, _, _)
FindLoopRawName(directory, i, key, suffix) ==
    IF i > Len(directory) THEN 0
    ELSE IF Lower(PathSuffix(directory[i].name)) = suffix
            /\ Contains(directory[i].name, key)
         THEN i
         ELSE FindLoopRawName(directory, i + 1, key, suffix)

find_file_raw_name(directory, keyword, suffix) ==
    FindLoopRawName(directory, 1, normalize_text(keyword), suffix)

find_file(directory, keyword, suffix) ==
    FindLoop(directory, 1, normalize_text(keyword), suffix)

\* ------------------------------------------------------------------------
\* Tab 1 (lines 133-155)
\* ------------------------------------------------------------------------
\* len(growth_data.get(s, []))
CountOf(growth, s) == IF HasKey(growth, s) THEN Len(DictGet(growth, s).rows) ELSE 0

OverviewRows(growth) ==
    [i \in 1..Len(EC_INFO) |->
        [school |-> EC_INFO[i].school, ec |-> EC_INFO[i].ec,
         cnt |-> CountOf(growth, EC_INFO[i].school)]]

TotalCount(growth) == Sum([i \in 1..Len(EC_INFO) |-> CountOf(growth, EC_INFO[i].school)])

\* pd.concat(frames)[c]: the column over the union of the frames' columns;
\* rows of a frame without the column are NaN, which mean() skips
RECURSIVE ConcatColumn(_, _)
ConcatColumn(d, c) ==
    IF d = <<>> THEN <<>>
    ELSE (IF HasColumn(Head(d).v, c) THEN Column(Head(d).v, c) ELSE <<>>)
         \o ConcatColumn(Tail(d), c)

ConcatHasColumn(d, c) == \E i \in 1..Len(d) : HasColumn(d[i].v, c)

Tab1Raises(env) ==
    ~ConcatHasColumn(env, "temperature") \/ ~ConcatHasColumn(env, "humidity")

\* c4.metric("최적 EC", "2.0 ⭐ (하늘고)"): a literal
OptimalEcMetric == [ec |-> 2, school |-> Haneul]

Tab1Metrics(env, growth) ==
    [total_count |-> TotalCount(growth),
     avg_temp |-> Mean(ConcatColumn(env, "temperature")),
     avg_hum |-> Mean(ConcatColumn(env, "humidity")),
     optimal |-> OptimalEcMetric]

\* ------------------------------------------------------------------------
\* Tab 2 (lines 163-215)
\* ------------------------------------------------------------------------
EnvRowRaises(s, df) ==
    \/ ~HasColumn(df, "temperature") \/ ~HasColumn(df, "humidity")
    \/ ~HasColumn(df, "ph") \/ ~HasColumn(df, "ec")
    \/ ~InEcInfo(s)

EnvSummaryRow(s, df) ==
    [school |-> s,
     temperature |-> Mean(Column(df, "temperature")),
     humidity |-> Mean(Column(df, "humidity")),
     ph |-> Mean(Column(df, "ph")),
     measured_ec |-> Mean(Column(df, "ec")),
     target_ec |-> EcOf(s)]

EnvSummary(env) == [i \in 1..Len(env) |-> EnvSummaryRow(env[i].k, env[i].v)]

\* the per-school time series, drawn when a school is selected
SelectedRaises(env, selected) ==
    /\ selected # All
    /\ \/ ~HasKey(env, selected)
       \/ LET df == DictGet(env, selected)
          IN \/ ~HasColumn(df, "time") \/ ~HasColumn(df, "temperature")
             \/ ~HasColumn(df, "humidity") \/ ~HasColumn(df, "ec")

Tab2SummaryRaises(env) == \E i \in 1..Len(env) : EnvRowRaises(env[i].k, env[i].v)

\* ------------------------------------------------------------------------
\* Tab 3 (lines 232-250)
\* ------------------------------------------------------------------------
GrowthRowRaises(s, df) ==
    \/ ~InEcInfo(s)
    \/ ~HasColumn(df, "biomass_g") \/ ~HasColumn(df, "leaf_count")
    \/ ~HasColumn(df, "shoot_length_mm")

GrowthSummaryRow(s, df) ==
    [school |-> s,
     ec |-> EcOf(s),
     biomass |-> Mean(Column(df, "biomass_g")),
     leaf |-> Mean(Column(df, "leaf_count")),
     shoot |-> Mean(Column(df, "shoot_length_mm")),
     cnt |-> Len(df.rows)]

GrowthSummary(growth) == [i \in 1..Len(growth) |-> GrowthSummaryRow(growth[i].k, growth[i].v)]

Tab3SummaryRaises(growth) == \E i \in 1..Len(growth) : GrowthRowRaises(growth[i].k, growth[i].v)

\* Series.idxmax() on the mean-biomass column: NaN is skipped, the first
\* position of the maximum wins; 0 here when every value is NaN, for which
\* pandas raises (or yields a label that .loc rejects)
IdxMax(g) ==
    LET ok == {i \in 1..Len(g) : ~IsNaN(g[i].biomass)}
    IN IF ok = {} THEN 0
       ELSE CHOOSE i \in ok :
              /\ \A j \in ok : ~Greater(g[j].biomass, g[i].biomass)
              /\ \A j \in ok : j < i => Greater(g[i].biomass, g[j].biomass)

NoBest == [school |-> <<>>, ec |-> 0, biomass |-> NaN, leaf |-> NaN, shoot |-> NaN, cnt |-> 0]

\* ------------------------------------------------------------------------
\* The files the directory is drawn from
\* ------------------------------------------------------------------------
MaxChanges == 2
MaxFiles == 5
MaxFindDir == 2

EnvName(school) == school \o EnvToken \o CsvExt
GrowthName == <<49373, 50977, 44208, 44284>> \o XlsxExt   \* "생육결과.xlsx"
BackupName == <<98>> \o XlsxExt                           \* "b.xlsx"

\* two readings per school, the measured EC equal to the target
EnvRows(e) == << <<1, 20, 60, 6, e>>, <<2, 22, 64, 6, e>> >>
EnvFile(school) == Csv(EnvName(school), EnvColumns, EnvRows(EcOf(school)))

SongdoNfd == Csv(NFD(EnvName(Songdo)), EnvColumns, EnvRows(1))
SongdoEdited == Csv(EnvName(Songdo), EnvColumns, << <<1, 30, 70, 7, 1>> >>)
GitaFile == Csv(EnvName(Gita), EnvColumns, EnvRows(3))
AraNoPh == Csv(EnvName(Ara), <<"time", "temperature", "humidity", "ec">>,
               << <<1, 20, 60, 4>>, <<2, 22, 64, 4>> >>)
AraNoRows == Csv(EnvName(Ara), EnvColumns, <<>>)
AraUnreadable == Unreadable(EnvFile(Ara))

CsvFiles ==
    { EnvFile(Songdo), EnvFile(Haneul), EnvFile(Ara), EnvFile(Dongsan),
      SongdoNfd, SongdoEdited, GitaFile, AraNoPh, AraNoRows, AraUnreadable }

\* growth sheets: mean biomass 3, 6, 4, 2 for EC 1, 2, 4, 8
SongdoSheet == Sheet(Songdo, GrowthColumns, << <<3, 5, 100>> >>)
HaneulSheet == Sheet(Haneul, GrowthColumns, << <<5, 8, 140>>, <<7, 10, 160>> >>)
AraSheet == Sheet(Ara, GrowthColumns, << <<3, 6, 110>>, <<5, 8, 130>> >>)
DongsanSheet == Sheet(Dongsan, GrowthColumns, << <<2, 4, 90>> >>)
AraTopSheet == Sheet(Ara, GrowthColumns, << <<6, 8, 130>> >>)
AraEmptySheet == Sheet(Ara, GrowthColumns, <<>>)
HaneulNfdSheet == [HaneulSheet EXCEPT !.name = NFD(Haneul)]
DongsanNoLeafSheet == Sheet(Dongsan, <<"biomass_g", "shoot_length_mm">>, << <<2, 90>> >>)

BookFull == Workbook(GrowthName, <<SongdoSheet, HaneulSheet, AraSheet, DongsanSheet>>)
BookNoHaneul == Workbook(GrowthName, <<SongdoSheet, AraSheet, DongsanSheet>>)
BookOnlyHaneul == Workbook(GrowthName, <<HaneulSheet>>)
BookAraEmpty == Workbook(GrowthName, <<SongdoSheet, HaneulSheet, AraEmptySheet, DongsanSheet>>)
BookOnlyEmpty == Workbook(GrowthName, <<AraEmptySheet>>)
BookNfdSheet == Workbook(GrowthName, <<SongdoSheet, HaneulNfdSheet, AraSheet, DongsanSheet>>)
BookNoLeaf == Workbook(GrowthName, <<SongdoSheet, HaneulSheet, AraSheet, DongsanNoLeafSheet>>)
BookTie == Workbook(GrowthName, <<SongdoSheet, AraTopSheet, HaneulSheet, DongsanSheet>>)
BookUnreadable == Unreadable(BookFull)
BookBackup == Workbook(BackupName, <<DongsanSheet>>)

Workbooks ==
    { BookFull, BookNoHaneul, BookOnlyHaneul, BookAraEmpty, BookOnlyEmpty,
      BookNfdSheet, BookNoLeaf, BookTie, BookUnreadable, BookBackup }

Files == CsvFiles \cup Workbooks

FullDir == <<EnvFile(Songdo), EnvFile(Haneul), EnvFile(Ara), EnvFile(Dongsan), BookFull>>

Names(directory) == {directory[i].name : i \in 1..Len(directory)}

\* a sequence with x inserted so that it is at position i
InsertAt(q, i, x) == SubSeq(q, 1, i - 1) \o <<x>> \o SubSeq(q, i, Len(q))
RemoveAt(q, i) == SubSeq(q, 1, i - 1) \o SubSeq(q, i + 1, Len(q))

\* ------------------------------------------------------------------------
\* State
\* ------------------------------------------------------------------------
VARIABLES
    dir,              \* DATA_DIR, entries in iterdir() order
    changes,          \* number of changes made to DATA_DIR so far
    env_cache,        \* st.cache_data memo of load_environment_data
    growth_cache,     \* st.cache_data memo of load_growth_data
    stale,            \* history: DATA_DIR changed after a result was memoized
    pc,               \* position of the script run
    selected_school,  \* the sidebar selectbox
    env_data,         \* line 88
    growth_data,      \* line 89
    messages,         \* st.error calls of this run, a set of Message
    overview_df,      \* tab 1 table
    metrics,          \* tab 1 metrics
    sdf,              \* tab 2 summary table
    gdf,              \* tab 3 summary table
    best,             \* tab 3 best row
    exc,              \* the exception that ended the run, "" when none
    find_args,        \* find_file: directory, keyword, suffix
    find_result       \* find_file: [done, hit], hit the position found or 0

vars == <<dir, changes, env_cache, growth_cache, stale, pc, selected_school,
          env_data, growth_data, messages, overview_df, metrics, sdf, gdf, best,
          exc, find_args, find_result>>

runVars == <<env_data, growth_data, messages, overview_df, metrics, sdf, gdf, best, exc>>
findVars == <<find_args, find_result>>

Empty == [full |-> FALSE, value |-> <<>>]
Full(v) == [full |-> TRUE, value |-> v]
NoMetrics == [total_count |-> 0, avg_temp |-> NaN, avg_hum |-> NaN, optimal |-> [ec |-> 0, school |-> <<>>]]
\* st.error(text); file is the entry the message is about, <<>> for none
Message(text) == [text |-> text, file |-> <<>>]
Pending == [done |-> FALSE, hit |-> 0]
NoFind == [directory |-> <<>>, keyword |-> <<>>, suffix |-> <<>>]

Resting == {"idle", "done", "stopped", "crashed"}

Init ==
    /\ dir \in {<<>>, FullDir}
    /\ changes = 0
    /\ env_cache = Empty /\ growth_cache = Empty /\ stale = FALSE
    /\ pc = "idle"
    /\ selected_school = All
    /\ env_data = <<>> /\ growth_data = <<>> /\ messages = {}
    /\ overview_df = <<>> /\ metrics = NoMetrics /\ sdf = <<>> /\ gdf = <<>>
    /\ best = NoBest /\ exc = ""
    /\ find_args = NoFind /\ find_result = Pending

\* ------------------------------------------------------------------------
\* The data directory changes between script runs
\* ------------------------------------------------------------------------
Changed ==
    /\ changes' = changes + 1
    /\ stale' = (stale \/ env_cache.full \/ growth_cache.full)
    /\ UNCHANGED <<env_cache, growth_cache, pc, selected_school, runVars, findVars>>

AddFile ==
    /\ pc \in Resting /\ changes < MaxChanges /\ Len(dir) < MaxFiles
    /\ \E f \in Files, i \in 1..(Len(dir) + 1) :
         /\ f.name \notin Names(dir)
         /\ dir' = InsertAt(dir, i, f)
    /\ Changed

RemoveFile ==
    /\ pc \in Resting /\ changes < MaxChanges
    /\ \E i \in 1..Len(dir) : dir' = RemoveAt(dir, i)
    /\ Changed

ModifyFile ==
    /\ pc \in Resting /\ changes < MaxChanges
    /\ \E i \in 1..Len(dir), f \in Files :
         /\ f.name = dir[i].name /\ f # dir[i]
         /\ dir' = [dir EXCEPT ![i] = f]
    /\ Changed

\* ------------------------------------------------------------------------
\* One script run (Streamlit runs main.py top to bottom on every interaction)
\* ------------------------------------------------------------------------
Run ==
    /\ pc \in Resting
    /\ pc' = "load_env"
    /\ selected_school' \in {All} \cup Range(SCHOOLS)
    /\ env_data' = <<>> /\ growth_data' = <<>> /\ messages' = {}
    /\ overview_df' = <<>> /\ metrics' = NoMetrics /\ sdf' = <<>> /\ gdf' = <<>>
    /\ best' = NoBest /\ exc' = ""
    /\ UNCHANGED <<dir, changes, env_cache, growth_cache, stale, findVars>>

\* line 88: env_data = load_environment_data(), memoized by st.cache_data
CallLoadEnvironment ==
    /\ pc = "load_env"
    /\ LET r == IF env_cache.full THEN [raised |-> FALSE, value |-> env_cache.value]
                ELSE load_environment_data(dir)
       IN IF r.raised
          THEN /\ pc' = "crashed" /\ exc' = "ReadError"
               /\ UNCHANGED <<env_cache, env_data, messages>>
          ELSE /\ pc' = "load_growth"
               /\ env_cache' = Full(r.value)
               /\ env_data' = r.value
               /\ messages' = IF r.value = <<>> THEN messages \cup {Message("no_env_csv")} ELSE messages
               /\ exc' = exc
    /\ UNCHANGED <<dir, changes, growth_cache, stale, selected_school, growth_data,
                   overview_df, metrics, sdf, gdf, best, findVars>>

\* line 89: growth_data = load_growth_data(), memoized by st.cache_data
CallLoadGrowth ==
    /\ pc = "load_growth"
    /\ LET r == IF growth_cache.full THEN [raised |-> FALSE, value |-> growth_cache.value]
                ELSE load_growth_data(dir)
       IN IF r.raised
          THEN /\ pc' = "crashed" /\ exc' = "ReadError"
               /\ UNCHANGED <<growth_cache, growth_data, messages>>
          ELSE /\ pc' = "check"
               /\ growth_cache' = Full(r.value)
               /\ growth_data' = r.value
               \* a workbook has at least one sheet: {} is the "no xlsx" return
               /\ messages' = IF r.value = <<>>
                              THEN messages \cup {Message("no_xlsx")} ELSE messages
               /\ exc' = exc
    /\ UNCHANGED <<dir, changes, env_cache, stale, selected_school, env_data,
                   overview_df, metrics, sdf, gdf, best, findVars>>

\* lines 91-92: if not env_data or not growth_data: st.stop()
StopCheck ==
    /\ pc = "check"
    /\ pc' = IF env_data = <<>> \/ growth_data = <<>> THEN "stopped" ELSE "tab1"
    /\ UNCHANGED <<dir, changes, env_cache, growth_cache, stale, selected_school,
                   runVars, findVars>>

\* lines 124-155
Tab1 ==
    /\ pc = "tab1"
    /\ overview_df' = OverviewRows(growth_data)
    /\ IF Tab1Raises(env_data)
       THEN pc' = "crashed" /\ exc' = "KeyError" /\ metrics' = metrics
       ELSE pc' = "tab2" /\ exc' = exc /\ metrics' = Tab1Metrics(env_data, growth_data)
    /\ UNCHANGED <<dir, changes, env_cache, growth_cache, stale, selected_school,
                   env_data, growth_data, messages, sdf, gdf, best, findVars>>

\* lines 160-224
Tab2 ==
    /\ pc = "tab2"
    /\ IF Tab2SummaryRaises(env_data)
       THEN pc' = "crashed" /\ exc' = "KeyError" /\ sdf' = sdf
       ELSE /\ sdf' = EnvSummary(env_data)
            /\ IF SelectedRaises(env_data, selected_school)
               THEN pc' = "crashed" /\ exc' = "KeyError"
               ELSE pc' = "tab3" /\ exc' = exc
    /\ UNCHANGED <<dir, changes, env_cache, growth_cache, stale, selected_school,
                   env_data, growth_data, messages, overview_df, metrics, gdf, best,
                   findVars>>

\* lines 229-312
Tab3 ==
    /\ pc = "tab3"
    /\ IF Tab3SummaryRaises(growth_data)
       THEN pc' = "crashed" /\ exc' = "KeyError" /\ gdf' = gdf /\ best' = best
       ELSE LET g == GrowthSummary(growth_data)
            IN /\ gdf' = g
               /\ IF IdxMax(g) = 0
                  THEN pc' = "crashed" /\ exc' = "ValueError" /\ best' = best
                  ELSE pc' = "done" /\ exc' = exc /\ best' = g[IdxMax(g)]
    /\ UNCHANGED <<dir, changes, env_cache, growth_cache, stale, selected_school,
                   env_data, growth_data, messages, overview_df, metrics, sdf, findVars>>

Next ==
    \/ AddFile \/ RemoveFile \/ ModifyFile
    \/ Run \/ CallLoadEnvironment \/ CallLoadGrowth \/ StopCheck
    \/ Tab1 \/ Tab2 \/ Tab3

Spec == Init /\ [][Next]_vars

TypeOK ==
    /\ pc \in Resting \cup {"load_env", "load_growth", "check", "tab1", "tab2", "tab3"}
    /\ changes \in 0..MaxChanges
    /\ Len(dir) <= MaxFiles

\* ------------------------------------------------------------------------
\* find_file on its own: the script defines it and never calls it, so it is
\* exercised over drawn directories, keywords and suffixes
\* ------------------------------------------------------------------------
FindNames ==
    { EnvName(Songdo), NFD(EnvName(Songdo)), EnvName(Haneul), NFD(EnvName(Haneul)),
      Songdo \o CsvExt, Songdo \o EnvToken \o CsvExtUpper,
      GrowthName, NFD(GrowthName), Songdo }

FindKeywords ==
    { Songdo, NFD(Songdo), Haneul, NFD(Haneul), Gita,
      EnvName(Songdo), NFD(EnvName(Songdo)), GrowthName }

FindSuffixes == { CsvExt, XlsxExt }

Entry(n) == Csv(n, <<>>, <<>>)

\* the sequences over S of length at most n
RECURSIVE SeqsUpTo(_, _)
SeqsUpTo(S, n) ==
    IF n = 0 THEN {<<>>}
    ELSE LET shorter == SeqsUpTo(S, n - 1)
         IN shorter \cup {Append(q, x) : q \in shorter, x \in S}

FindDirs ==
    {q \in SeqsUpTo({Entry(n) : n \in FindNames}, MaxFindDir) :
        \A i, j \in 1..Len(q) : i # j => q[i] # q[j]}

InitFind ==
    /\ dir = <<>>
    /\ changes = 0
    /\ env_cache = Empty /\ growth_cache = Empty /\ stale = FALSE
    /\ pc = "idle"
    /\ selected_school = All
    /\ env_data = <<>> /\ growth_data = <<>> /\ messages = {}
    /\ overview_df = <<>> /\ metrics = NoMetrics /\ sdf = <<>> /\ gdf = <<>>
    /\ best = NoBest /\ exc = ""
    /\ find_args \in [directory : FindDirs, keyword : FindKeywords, suffix : FindSuffixes]
    /\ find_result = Pending

CallFindFile ==
    /\ find_result = Pending
    /\ find_result' = [done |-> TRUE, hit |-> find_file(find_args.directory, find_args.keyword, find_args.suffix)]
    /\ UNCHANGED <<dir, changes, env_cache, growth_cache, stale, pc, selected_school,
                   runVars, find_args>>

NextFind == CallFindFile

SpecFind == InitFind /\ [][NextFind]_vars

\* ========================================================================
\* Properties
\* ========================================================================
IsCsv(f) == Lower(PathSuffix(f.name)) = CsvExt
CsvEntries(directory) == {directory[i] : i \in {j \in 1..Len(directory) : IsCsv(directory[j])}}

\* the school a file name stands for: the stem brought to composed form,
\* then the suffix token taken off
LogicalSchool(name) == RemoveAll(NFC(PathStem(name)), EnvToken)

\* the loaders ran on the directory as it is now
Loaded == env_cache.full /\ growth_cache.full /\ ~stale
PastStop == pc \in {"tab1", "tab2", "tab3", "done"}
RunOver == pc \in {"done", "stopped", "crashed"}

\* C1: the key stored for an environment CSV is the school name with the
\* suffix token stripped, whether the file name on disk is NFC or NFD: the
\* keys of the loaded mapping are exactly the logical schools of the CSV
\* entries.
C1_SchoolKeyIgnoresForm ==
    (env_cache.full /\ ~stale) =>
        Keys(env_cache.value) = {LogicalSchool(f.name) : f \in CsvEntries(dir)}

\* C3: once the directory has changed, the next call of a loader returns
\* what the new contents give: during a run, the data the loader calls
\* returned are the loads of the directory as it is.
C3_LoadReflectsDirectory ==
    /\ pc \in {"load_growth", "check", "tab1", "tab2", "tab3"} =>
          env_data = load_environment_data(dir).value
    /\ pc \in {"check", "tab1", "tab2", "tab3"} =>
          growth_data = load_growth_data(dir).value

\* C4: with no environment school, no growth school, or no school common
\* to the two mappings, the script stops before any aggregation: a run
\* that is past the stop check has a school in both mappings.
C4_HaltsOnEmptyResult ==
    PastStop =>
        /\ env_data # <<>>
        /\ growth_data # <<>>
        /\ Keys(env_data) \cap Keys(growth_data) # {}

\* a CSV entry that cannot be read or lacks a required environment column
BadCsv(f) ==
    IsCsv(f) /\ (~f.readable \/ \E c \in {"temperature", "humidity", "ph", "ec"} :
                                   c \notin Range(f.header))
GoodCsv(f) == IsCsv(f) /\ ~BadCsv(f)
BadSheet(sh) == \E c \in Range(GrowthColumns) : c \notin Range(sh.header)

TheBook(directory) == directory[FirstXlsx(directory)]
BadSheets(directory) ==
    IF FirstXlsx(directory) = 0 \/ ~TheBook(directory).readable THEN {}
    ELSE {sh \in Range(TheBook(directory).sheets) : BadSheet(sh)}
GoodSheets(directory) ==
    IF FirstXlsx(directory) = 0 \/ ~TheBook(directory).readable THEN {}
    ELSE {sh \in Range(TheBook(directory).sheets) : ~BadSheet(sh)}

Recorded(name) == \E m \in messages : m.file = name

\* C5: one bad file or sheet among several is recorded at load time and the
\* others are still loaded and aggregated: a finished run over a directory
\* with a bad CSV (or sheet) and a good one ended without an exception,
\* names the bad one in a message, and has the good ones in its summaries.
C5_BadFileDoesNotAbort ==
    (RunOver /\ ~stale) =>
        /\ ((\E f \in CsvEntries(dir) : BadCsv(f)) /\ (\E f \in CsvEntries(dir) : GoodCsv(f))) =>
              /\ exc = ""
              /\ \A f \in CsvEntries(dir) : BadCsv(f) => Recorded(f.name)
              /\ \A f \in CsvEntries(dir) : GoodCsv(f) =>
                    \E i \in 1..Len(sdf) : sdf[i].school = LogicalSchool(f.name)
        /\ (BadSheets(dir) # {} /\ GoodSheets(dir) # {}) =>
              /\ exc = ""
              /\ \A sh \in BadSheets(dir) : Recorded(sh.name)
              /\ \A sh \in GoodSheets(dir) :
                    \E i \in 1..Len(gdf) : gdf[i].school = NFC(sh.name)

\* the mean biomass of the growth mapping's i-th school
BiomassMean(growth, i) ==
    IF HasColumn(growth[i].v, "biomass_g") THEN Mean(Column(growth[i].v, "biomass_g")) ELSE NaN

\* i is the first position of the growth mapping with the maximal mean
FirstMaximal(growth, i) ==
    /\ ~IsNaN(BiomassMean(growth, i))
    /\ \A j \in 1..Len(growth) :
          IsNaN(BiomassMean(growth, j))
          \/ ~Greater(BiomassMean(growth, j), BiomassMean(growth, i))
    /\ \A j \in 1..(i - 1) :
          IsNaN(BiomassMean(growth, j))
          \/ Greater(BiomassMean(growth, i), BiomassMean(growth, j))

\* the EC levels the finished run reports as optimal: the tab 1 metric and
\* the tab 3 best row
ReportedOptima == {metrics.optimal.ec, best.ec}

\* C6: the optimal EC reported is the EC level with the maximal mean
\* biomass of the loaded growth data, the first such level in iteration
\* order on a tie.
C6_OptimalIsArgMax ==
    pc = "done" =>
        \A e \in ReportedOptima :
            \E i \in 1..Len(growth_data) :
                /\ FirstMaximal(growth_data, i)
                /\ InEcInfo(growth_data[i].k) /\ e = EcOf(growth_data[i].k)

\* the four environment files with the growth workbook whose 하늘고 sheet
\* has been removed
HaneulSheetRemoved ==
    /\ Range(dir) = {EnvFile(Songdo), EnvFile(Haneul), EnvFile(Ara), EnvFile(Dongsan),
                     BookNoHaneul}
    /\ Len(dir) = 5

\* C7: in that directory the run is not halted as empty and every place
\* that reports the best EC reports 4.0.
C7_PartialLoadReportsFour ==
    (RunOver /\ ~stale /\ HaneulSheetRemoved) =>
        /\ pc = "done"
        /\ \A e \in ReportedOptima : e = 4

\* the directory holds readable CSV files of distinct schools and one
\* readable workbook with one sheet for each of those schools
OnePerSchool(directory) ==
    LET csvs == CsvEntries(directory)
        books == {i \in 1..Len(directory) : Lower(PathSuffix(directory[i].name)) = XlsxExt}
    IN /\ csvs # {}
       /\ \A f \in csvs : f.readable
       /\ \A f, g \in csvs : LogicalSchool(f.name) = LogicalSchool(g.name) => f = g
       /\ Cardinality(books) = 1
       /\ TheBook(directory).readable
       /\ LET sheets == TheBook(directory).sheets
          IN /\ \A i, j \in 1..Len(sheets) : NFC(sheets[i].name) = NFC(sheets[j].name) => i = j
             /\ {NFC(sheets[i].name) : i \in 1..Len(sheets)}
                  = {LogicalSchool(f.name) : f \in csvs}

\* C8: one CSV and one sheet per school, for N schools, load as N entries
\* in each mapping; each school's entry holds as many rows as its file or
\* sheet, and the overview's count for a school is its sheet's row count.
C8_EntriesAndRowCounts ==
    (Loaded /\ overview_df # <<>> /\ OnePerSchool(dir)) =>
        LET csvs == CsvEntries(dir)
            sheets == Range(TheBook(dir).sheets)
        IN /\ Len(env_data) = Cardinality(csvs)
           /\ Len(growth_data) = Cardinality(csvs)
           /\ \A f \in csvs :
                 /\ HasKey(env_data, LogicalSchool(f.name))
                 /\ Len(DictGet(env_data, LogicalSchool(f.name)).rows) = Len(f.rows)
           /\ \A sh \in sheets :
                 /\ HasKey(growth_data, NFC(sh.name))
                 /\ Len(DictGet(growth_data, NFC(sh.name)).rows) = Len(sh.rows)
           /\ \A sh \in sheets : \A i \in 1..Len(overview_df) :
                 overview_df[i].school = NFC(sh.name) => overview_df[i].cnt = Len(sh.rows)

\* C9: the mean of an empty group is signaled as undefined: no summary
\* table holds a NaN mean, the best row is not chosen among rows with a
\* NaN mean, and no NaN reaches the rendered tab 1 metrics.
C9_NoNaNPassedOn ==
    /\ \A i \in 1..Len(sdf) :
          ~IsNaN(sdf[i].temperature) /\ ~IsNaN(sdf[i].humidity)
          /\ ~IsNaN(sdf[i].ph) /\ ~IsNaN(sdf[i].measured_ec)
    /\ \A i \in 1..Len(gdf) :
          ~IsNaN(gdf[i].biomass) /\ ~IsNaN(gdf[i].leaf) /\ ~IsNaN(gdf[i].shoot)
    /\ pc \in {"tab2", "tab3", "done"} => ~IsNaN(metrics.avg_temp) /\ ~IsNaN(metrics.avg_hum)

\* C10: every school key of the environment mapping that reaches the
\* aggregation is one of the four schools of EC_INFO.
C10_KeysAreKnownSchools ==
    PastStop => Keys(env_data) \subseteq Range(SCHOOLS)

\* ------------------------------------------------------------------------
\* find_file
\* ------------------------------------------------------------------------
\* key occurs in s at some position
Occurs(s, key) ==
    \E i \in 1..(Len(s) - Len(key) + 1) : SubSeq(s, i, i + Len(key) - 1) = key

\* the entry qualifies: its lower-cased extension is the suffix and its
\* composed name contains the composed keyword
Qualifies(f, keyword, suffix) ==
    /\ Lower(PathSuffix(f.name)) = suffix
    /\ Occurs(NFC(f.name), NFC(keyword))

\* the entry's composed name is the composed target, the target being the
\* keyword or the keyword with the suffix
MatchesExactly(f, keyword, suffix) ==
    \/ NFC(f.name) = NFC(keyword)
    \/ NFC(f.name) = NFC(keyword) \o suffix

RenameAll(directory, Form(_)) ==
    [i \in 1..Len(directory) |-> [directory[i] EXCEPT !.name = Form(directory[i].name)]]

\* C2 as stated: the entry returned matches the target exactly after NFC
\* normalization of both, and None is returned when no entry matches
\* exactly.
C2_ExactMatchOrNone ==
    find_result.done =>
        LET d == find_args.directory
        IN /\ find_result.hit # 0 =>
                 MatchesExactly(d[find_result.hit], find_args.keyword, find_args.suffix)
           /\ (\A i \in 1..Len(d) : ~MatchesExactly(d[i], find_args.keyword, find_args.suffix))
                 => find_result.hit = 0

\* C2 amended: find_file returns the first entry in iteration order whose
\* lower-cased extension equals the suffix and whose NFC-normalized name
\* contains the NFC-normalized keyword, None when there is none; the
\* position found is the same with the keyword and the names on disk each
\* in composed or in decomposed form.
C2_FirstContainingOrNone ==
    find_result.done =>
        LET d == find_args.directory
            k == find_args.keyword
            x == find_args.suffix
            h == find_result.hit
        IN /\ h \in 0..Len(d)
           /\ h # 0 => Qualifies(d[h], k, x) /\ \A j \in 1..(h - 1) : ~Qualifies(d[j], k, x)
           /\ h = 0 => \A j \in 1..Len(d) : ~Qualifies(d[j], k, x)
           /\ h = find_file(RenameAll(d, NFD), NFC(k), x)
           /\ h = find_file(RenameAll(d, NFC), NFD(k), x)

\* find_file has returned an entry stored under a decomposed name for a
\* composed keyword, and the name is more than the keyword
C2_FoundDecomposedName ==
    /\ find_result.done /\ find_result.hit # 0
    /\ LET f == find_args.directory[find_result.hit]
       IN /\ f.name # NFC(f.name)
          /\ find_args.keyword = NFC(find_args.keyword)
          /\ ~MatchesExactly(f, find_args.keyword, find_args.suffix)

====
